---- MODULE Spec2Model ----
(***************************************************************************)
(* A model of the APNG encoder of shutej/apng (writer.go and the filter    *)
(* file): the streaming pipeline of NewEncoder_IDAT / Encoder_IDAT /       *)
(* Encoder_fdAT with its producer goroutine and unbuffered channel, the    *)
(* shared SequenceNumbers counter, the chunk framing of writeChunkTo and   *)
(* the adaptive row filter.                                                *)
(***************************************************************************)
EXTENDS Integers, Sequences, FiniteSets, TLC

(***************************************************************************)
(* Bounds of the model.                                                    *)
(***************************************************************************)
\* rows of the encoded image, b.Dy()
MaxRows == 2
\* writes the entropy coder issues to its sink while it takes one row
MaxWrites == 2
\* bytes of one such write
MaxWrite == 2
\* size of the bufio.Writer between the coder and the channel; the code's
\* 1<<15 (writer.go:332) scaled down
BufSize == 2
\* sequence numbers one session draws
MaxSeq == 2
\* animation frames of the example session (frames = 10 in the example)
Frames == 2
\* bytes of one image row, bpp * b.Dx()
MaxRowLen == 4
\* bytes of a chunk's payload
MaxPayload == 2

VARIABLES
  c,         \* the Chunk_IHDR: <<ColorType, BitDepth>>
  pcP,       \* position of the goroutine of NewEncoder_IDAT
  rows,      \* rows of the image m, b.Dy()
  y,         \* rows writeImage has fed to the coder
  zq,        \* writes the coder still issues for the current row
  p,         \* argument of the running bufio Write, what is left of it
  bbuf,      \* the bufio.Writer's internal buffer b.buf
  bn,        \* the bufio.Writer's fill b.n
  zout,      \* bytes the coder has produced so far (byte k is the number k)
  offer,     \* the atom of the running channel send
  after,     \* where the goroutine continues when the send completes
  chq,       \* the channel's buffer
  chClosed,  \* close(aw) has run
  handed,    \* ghost: atoms whose send has completed, in order
  ekind,     \* the consumer's encoder: "none", "IDAT" or "fdAT"
  nenc,      \* encoders created so far
  ea,        \* Encoder_IDAT.a
  cpc,       \* "idle", or "recv" while Next() blocks in the receive
  ret,       \* what the consumer's last call returned
  received,  \* ghost: atoms Next() has received, in order
  panicked,  \* a nil dereference or panic(err) ended the consumer
  seq,       \* the SequenceNumbers value
  log,       \* ghost: sequence numbers drawn, in emission order
  fdUnits,   \* ghost: data units handed off by the producers of fdAT encoders
  pcX,       \* position of the example program
  frame,     \* the example's loop variable i
  fw,        \* width of the image, b.Dx()
  applyFilter, \* cl != NoCompression
  cr,        \* writeImage's five row buffers cr[0..4], tag byte first
  pr,        \* writeImage's previous row, tag byte first
  fsel,      \* the filter type f of the last row
  fout,      \* the row cr[f] last written to the coder
  wname,     \* writeChunkTo's name, as four bytes
  wb,        \* writeChunkTo's payload b
  wpc,       \* "call" before writeChunkTo has run, "returned" after
  wlog,      \* the writes writeChunkTo issued to w, with what w answered
  wret       \* what writeChunkTo returned

pvars == <<pcP, rows, y, zq, p, bbuf, bn, zout, offer, after>>
chvars == <<chq, chClosed, handed>>
cvars == <<ekind, nenc, ea, cpc, ret, received, panicked>>
svars == <<seq, log, fdUnits>>
xvars == <<pcX, frame>>
fvars == <<fw, applyFilter, cr, pr, fsel, fout>>
wvars == <<wname, wb, wpc, wlog, wret>>
vars == <<c, pvars, chvars, cvars, svars, xvars, fvars, wvars>>

(***************************************************************************)
(* Chunk_IHDR.cb: the supported (color type, bit depth) layouts.           *)
(***************************************************************************)
ColorType_Grayscale == 0
ColorType_TrueColor == 2
ColorType_Paletted == 3
ColorType_GrayscaleAlpha == 4
ColorType_TrueColorAlpha == 6

cbInvalid == 0
cbG8 == 4
cbTC8 == 6
cbP8 == 10
cbTCA8 == 11
cbG16 == 12
cbTC16 == 14
cbTCA16 == 15

cb(h) ==
  CASE h[1] = ColorType_Grayscale /\ h[2] = 8 -> cbG8
    [] h[1] = ColorType_TrueColor /\ h[2] = 8 -> cbTC8
    [] h[1] = ColorType_Paletted /\ h[2] = 8 -> cbP8
    [] h[1] = ColorType_TrueColorAlpha /\ h[2] = 8 -> cbTCA8
    [] h[1] = ColorType_TrueColor /\ h[2] = 16 -> cbTC16
    [] h[1] = ColorType_TrueColorAlpha /\ h[2] = 16 -> cbTCA16
    [] h[1] = ColorType_Grayscale /\ h[2] = 16 -> cbG16
    [] OTHER -> cbInvalid

\* the headers the model draws from: the example's and the unsupported
\* true-color header of bit depth 4
Headers == { <<ColorType_TrueColorAlpha, 8>>, <<ColorType_TrueColor, 4>> }

(***************************************************************************)
(* Atoms, the channel and the values calls return.                         *)
(***************************************************************************)
\* atom{buf, err}: id is the pointer's identity, len is len(buf), buf the
\* bytes of the span at the hand-off
Atom(k, b, e) == [id |-> k, len |-> Len(b), buf |-> b, err |-> e]

NilAtom == [id |-> 0, len |-> 0, buf |-> <<>>, err |-> FALSE]

\* capacity of make(atomWriter)
chanCapBuffered == 1 + 1

chanCap == 0

NoChunk == [tag |-> "none", seq |-> -1, atom |-> 0, len |-> 0, data |-> <<>>]

Ret(op, ok, ch) == [op |-> op, ok |-> ok, chunk |-> ch]

\* Encoder_IDAT.Err: TRUE when the error is non-nil
Err(a) == a # NilAtom /\ a.err

Min(a, b) == IF a < b THEN a ELSE b

RECURSIVE Flatten(_)
Flatten(s) == IF s = <<>> THEN <<>> ELSE Head(s).buf \o Flatten(Tail(s))

Zeros(n) == [i \in 1..n |-> 0]

(***************************************************************************)
(* Init: a header, an image, a fresh SequenceNumbers, no encoder yet.      *)
(***************************************************************************)
\* no encoder yet, a fresh SequenceNumbers
PipelineInit ==
  /\ pcP = "none" /\ y = 0 /\ zq = 0 /\ p = <<>>
  /\ bbuf = Zeros(BufSize) /\ bn = 0 /\ zout = 0
  /\ offer = NilAtom /\ after = "none"
  /\ chq = <<>> /\ chClosed = FALSE /\ handed = <<>>
  /\ ekind = "none" /\ nenc = 0 /\ ea = NilAtom /\ cpc = "idle"
  /\ ret = Ret("none", "none", NoChunk)
  /\ received = <<>> /\ panicked = FALSE
  /\ seq = 0 /\ log = <<>> /\ fdUnits = 0
  /\ pcX = "start" /\ frame = 0

\* the row buffers and the chunk writer, where a specification leaves them
\* out
FilterIdle ==
  /\ fw = 0 /\ applyFilter = FALSE /\ cr = <<>> /\ pr = <<>>
  /\ fsel = 0 /\ fout = <<>>

ChunkIdle ==
  /\ wname = <<>> /\ wb = <<>> /\ wpc = "none" /\ wlog = <<>>
  /\ wret = [n |-> 0, err |-> "nil"]

Init ==
  /\ c \in Headers
  /\ rows \in 0..MaxRows
  /\ PipelineInit /\ FilterIdle /\ ChunkIdle

(***************************************************************************)
(* NewEncoder_IDAT / NewEncoder_fdAT: make the channel, start the          *)
(* goroutine, return the encoder.  An encoder the consumer drops leaves    *)
(* the model together with its goroutine and channel.                      *)
(***************************************************************************)
NewEncoder(kind) ==
  /\ cpc = "idle" /\ ~panicked
  /\ pcP' = "ctor" /\ y' = 0 /\ zq' = 0 /\ p' = <<>>
  /\ bbuf' = Zeros(BufSize) /\ bn' = 0 /\ zout' = 0
  /\ offer' = NilAtom /\ after' = "none"
  /\ chq' = <<>> /\ chClosed' = FALSE /\ handed' = <<>>
  /\ ekind' = kind /\ nenc' = nenc + 1 /\ ea' = NilAtom
  /\ ret' = Ret("New", "none", NoChunk)
  /\ received' = <<>>
  /\ UNCHANGED <<c, rows, cpc, panicked, svars>>

NewEncoder_IDAT == NewEncoder("IDAT")

NewEncoder_fdAT == NewEncoder("fdAT")

(***************************************************************************)
(* The goroutine.                                                          *)
(***************************************************************************)
\* zlib.NewWriterLevel(bufio.NewWriterSize(aw, 1<<15), ...): on an error send
\* the error atom and return, else defer close(aw) and run writeImage
Ctor ==
  /\ pcP = "ctor"
  /\ \E fails \in BOOLEAN :
       IF fails
         THEN /\ offer' = Atom(Len(handed) + 1, <<>>, TRUE)
              /\ after' = "return_noclose"
              /\ pcP' = "send"
         ELSE /\ pcP' = "rows"
              /\ UNCHANGED <<offer, after>>
  /\ UNCHANGED <<c, rows, y, zq, p, bbuf, bn, zout, chvars, cvars, svars>>

\* writeImage's loop: the next row is transcoded, filtered and written to
\* the coder, which answers with some writes to its sink (the first row
\* brings the stream header, so at least one) or with an error; after the
\* last row writeImage returns nil and the deferred close runs
writeImage_row ==
  /\ pcP = "rows"
  /\ IF y < rows
       THEN \E fails \in BOOLEAN :
              IF fails
                THEN /\ offer' = Atom(Len(handed) + 1, <<>>, TRUE)
                     /\ after' = "return_close"
                     /\ pcP' = "send"
                     /\ UNCHANGED zq
                ELSE /\ \E k \in (IF y = 0 THEN 1 ELSE 0)..MaxWrites : zq' = k
                     /\ pcP' = "zwrite"
                     /\ UNCHANGED <<offer, after>>
       ELSE /\ pcP' = "closing"
            /\ UNCHANGED <<offer, after, zq>>
  /\ UNCHANGED <<c, rows, y, p, bbuf, bn, zout, chvars, cvars, svars>>

\* one write of the coder into the bufio.Writer, never longer than the
\* buffer; when none is left the row is done
zlib_Write ==
  /\ pcP = "zwrite"
  /\ IF zq = 0
       THEN /\ y' = y + 1
            /\ pcP' = "rows"
            /\ UNCHANGED <<zq, p, zout>>
       ELSE \E n \in 1..Min(MaxWrite, BufSize) :
              /\ p' = [i \in 1..n |-> zout + i]
              /\ zout' = zout + n
              /\ zq' = zq - 1
              /\ pcP' = "bufwrite"
              /\ UNCHANGED y
  /\ UNCHANGED <<c, rows, bbuf, bn, offer, after, chvars, cvars, svars>>

\* bufio.Writer.Write: while p is longer than the room left, fill the
\* buffer and flush it through atomWriter.Write; then copy the rest
bufio_Write ==
  /\ pcP = "bufwrite"
  /\ IF Len(p) > BufSize - bn
       THEN LET n == BufSize - bn
                full == [i \in 1..BufSize |->
                           IF i <= bn THEN bbuf[i] ELSE p[i - bn]]
            IN /\ bbuf' = full
               /\ bn' = BufSize
               /\ p' = SubSeq(p, n + 1, Len(p))
               /\ offer' = Atom(Len(handed) + 1, full, FALSE)
               /\ after' = "flushed"
               /\ pcP' = "send"
       ELSE /\ bbuf' = [i \in 1..BufSize |->
                          IF i > bn /\ i <= bn + Len(p) THEN p[i - bn]
                          ELSE bbuf[i]]
            /\ bn' = bn + Len(p)
            /\ p' = <<>>
            /\ pcP' = "zwrite"
            /\ UNCHANGED <<offer, after>>
  /\ UNCHANGED <<c, rows, y, zq, zout, chvars, cvars, svars>>

\* where the goroutine goes on once its send is complete
AfterSend ==
  /\ pcP' = CASE after = "flushed" -> "bufwrite"
              [] after = "return_close" -> "closing"
              [] OTHER -> "done"
  /\ bn' = IF after = "flushed" THEN 0 ELSE bn
  /\ after' = "none"
  /\ offer' = NilAtom
  /\ fdUnits' = IF ekind = "fdAT" /\ ~offer.err THEN fdUnits + 1 ELSE fdUnits
  /\ handed' = Append(handed, offer)

\* aw <- &atom{...}: the send completes into the channel's buffer when
\* there is room, else by a rendezvous with the Next() blocked in receive
atomWriter_Write ==
  /\ pcP = "send"
  /\ IF Len(chq) < chanCap
       THEN /\ chq' = Append(chq, offer)
            /\ UNCHANGED <<ea, cpc, ret, received>>
       ELSE /\ cpc = "recv" /\ chq = <<>>
            /\ ea' = offer
            /\ cpc' = "idle"
            /\ ret' = Ret("Next", "true", NoChunk)
            /\ received' = Append(received, offer)
            /\ UNCHANGED chq
  /\ AfterSend
  /\ UNCHANGED <<c, rows, y, zq, p, bbuf, zout, chClosed, ekind, nenc,
                 panicked, seq, log>>

\* the deferred close(aw), then the goroutine ends
goroutine_return_nop == UNCHANGED chClosed

goroutine_return == chClosed' = TRUE

Close ==
  /\ pcP = "closing"
  /\ goroutine_return
  /\ pcP' = "done"
  /\ UNCHANGED <<c, rows, y, zq, p, bbuf, bn, zout, offer, after, chq, handed,
                 cvars, svars>>

Producer == Ctor \/ writeImage_row \/ zlib_Write \/ bufio_Write
              \/ atomWriter_Write \/ Close

(***************************************************************************)
(* The consumer: Encoder_IDAT and Encoder_fdAT (which forwards Next and    *)
(* Err to the Encoder_IDAT it wraps), and the caller's own draws from the  *)
(* SequenceNumbers.                                                        *)
(***************************************************************************)
\* Next up to the receive: with an error present it returns false at once;
\* else it blocks in e.a, ok = <-e.aw
Encoder_IDAT_Next_noguard ==
  /\ cpc' = "recv"
  /\ ret' = Ret("Next", "blocked", NoChunk)

Encoder_IDAT_Next ==
  IF Err(ea)
    THEN /\ ret' = Ret("Next", "false", NoChunk)
         /\ UNCHANGED cpc
    ELSE /\ cpc' = "recv"
         /\ ret' = Ret("Next", "blocked", NoChunk)

NextCall ==
  /\ ekind # "none" /\ cpc = "idle" /\ ~panicked
  /\ Encoder_IDAT_Next
  /\ UNCHANGED <<c, pvars, chvars, ekind, nenc, ea, received, panicked, svars>>

\* the receive of a blocked Next when no sender hands over directly: a
\* buffered atom, or (nil, false) from the closed channel
Recv ==
  /\ cpc = "recv"
  /\ IF chq # <<>>
       THEN /\ ea' = Head(chq)
            /\ chq' = Tail(chq)
            /\ received' = Append(received, Head(chq))
            /\ ret' = Ret("Next", "true", NoChunk)
       ELSE /\ chClosed
            /\ ea' = NilAtom
            /\ ret' = Ret("Next", "false", NoChunk)
            /\ UNCHANGED <<chq, received>>
  /\ cpc' = "idle"
  /\ UNCHANGED <<c, pvars, chClosed, handed, ekind, nenc, panicked, svars>>

\* Encoder_IDAT.Err / Encoder_fdAT.Err
ErrCall ==
  /\ ekind # "none" /\ cpc = "idle" /\ ~panicked
  /\ ret' = Ret("Err", IF Err(ea) THEN "error" ELSE "nil", NoChunk)
  /\ UNCHANGED <<c, pvars, chvars, ekind, nenc, ea, cpc, received, panicked,
                 svars>>

\* SequenceNumbers.Next: the value returned and the value left behind
SequenceNumbers_Next_value(s) == s

SequenceNumbers_Next_stuck(s) == s

\* *s++ on a uint32: the wrap at 2^32 lies beyond every draw the bounds
\* allow (and beyond the integers TLC computes with)
SequenceNumbers_Next(s) == s + 1

\* the frame a draw belongs to: the fcTL chunks drawn so far
NFrames(l) == Cardinality({i \in 1..Len(l) : l[i].kind = "fcTL"})

Draw(kind) ==
  /\ seq' = SequenceNumbers_Next(seq)
  /\ log' = Append(log, [kind |-> kind,
                         frame |-> NFrames(log) + (IF kind = "fcTL" THEN 1 ELSE 0),
                         seq |-> SequenceNumbers_Next_value(seq)])

\* every encoder's Chunk draws a number
DrawsNumber_always(kind) == TRUE

\* which encoder's Chunk calls e.seq.Next(): Encoder_fdAT's, Encoder_IDAT
\* having no SequenceNumbers
DrawsNumber(kind) == kind = "fdAT"

\* the bytes behind the slice e.a.buf as a reader finds them: the slice is
\* b.buf[0:b.n] of the bufio.Writer, whose array the goroutine goes on
\* writing
Span(a) == SubSeq(bbuf, 1, a.len)

\* Encoder_IDAT.Chunk and Encoder_fdAT.Chunk: the fdAT chunk draws its
\* sequence number first, then wraps e.a.buf; e.a = nil is a nil dereference
Chunk ==
  /\ ekind # "none" /\ cpc = "idle" /\ ~panicked
  /\ IF DrawsNumber(ekind) THEN Draw("fdAT") ELSE UNCHANGED <<seq, log>>
  /\ IF ea = NilAtom
       THEN /\ panicked' = TRUE
            /\ ret' = Ret("Chunk", "panic", NoChunk)
       ELSE /\ ret' = Ret("Chunk", "ok",
                          [tag |-> ekind,
                           seq |-> IF ekind = "fdAT"
                                     THEN SequenceNumbers_Next_value(seq) ELSE -1,
                           atom |-> ea.id, len |-> ea.len,
                           data |-> Span(ea)])
            /\ UNCHANGED panicked
  /\ UNCHANGED <<c, pvars, chvars, ekind, nenc, ea, cpc, received, fdUnits>>

\* the caller's seq.Next() for a Chunk_fcTL
fcTL ==
  /\ cpc = "idle" /\ ~panicked
  /\ Draw("fcTL")
  /\ ret' = Ret("fcTL", "ok", NoChunk)
  /\ UNCHANGED <<c, pvars, chvars, ekind, nenc, ea, cpc, received, panicked,
                 fdUnits>>

(***************************************************************************)
(* Spec: one encoder, its goroutine against a consumer that calls Next,     *)
(* Err, Chunk and the counter in any order.                                *)
(***************************************************************************)
Next ==
  \/ Ctor /\ UNCHANGED <<xvars, fvars, wvars>>
  \/ writeImage_row /\ UNCHANGED <<xvars, fvars, wvars>>
  \/ zlib_Write /\ UNCHANGED <<xvars, fvars, wvars>>
  \/ bufio_Write /\ UNCHANGED <<xvars, fvars, wvars>>
  \/ atomWriter_Write /\ UNCHANGED <<xvars, fvars, wvars>>
  \/ Close /\ UNCHANGED <<xvars, fvars, wvars>>
  \/ ekind = "none" /\ NewEncoder_IDAT /\ UNCHANGED <<xvars, fvars, wvars>>
  \/ ekind = "none" /\ NewEncoder_fdAT /\ UNCHANGED <<xvars, fvars, wvars>>
  \/ NextCall /\ UNCHANGED <<xvars, fvars, wvars>>
  \/ Recv /\ UNCHANGED <<xvars, fvars, wvars>>
  \/ ErrCall /\ UNCHANGED <<xvars, fvars, wvars>>
  \/ seq < MaxSeq /\ Chunk /\ UNCHANGED <<xvars, fvars, wvars>>
  \/ seq < MaxSeq /\ fcTL /\ UNCHANGED <<xvars, fvars, wvars>>

Spec == Init /\ [][Next]_vars

(***************************************************************************)
(* SpecExample: the consumer is the example program: the default image     *)
(* through an Encoder_IDAT, then each frame's fcTL and its Encoder_fdAT,   *)
(* each encoder read with  for e.Next() { e.Chunk() }  and e.Err().        *)
(***************************************************************************)
InLoop == pcX \in {"idat", "fdat"}

ExNewEncoder_IDAT ==
  /\ pcX = "start"
  /\ NewEncoder_IDAT
  /\ pcX' = "idat"
  /\ UNCHANGED frame

ExNext ==
  /\ InLoop /\ ret.op \in {"New", "Chunk"}
  /\ NextCall
  /\ UNCHANGED xvars

ExChunk ==
  /\ InLoop /\ ret.op = "Next" /\ ret.ok = "true"
  /\ Chunk
  /\ UNCHANGED xvars

\* if err := e.Err(); err != nil { panic(err) }, then on to the frames
ExErr ==
  /\ InLoop /\ ret.op = "Next" /\ ret.ok = "false"
  /\ cpc = "idle"
  /\ ret' = Ret("Err", IF Err(ea) THEN "error" ELSE "nil", NoChunk)
  /\ IF Err(ea)
       THEN /\ panicked' = TRUE
            /\ pcX' = "panicked"
            /\ UNCHANGED frame
       ELSE /\ pcX' = "frames"
            /\ frame' = IF pcX = "idat" THEN 0 ELSE frame + 1
            /\ UNCHANGED panicked
  /\ UNCHANGED <<c, pvars, chvars, ekind, nenc, ea, cpc, received, svars>>

ExfcTL ==
  /\ pcX = "frames" /\ frame < Frames
  /\ fcTL
  /\ pcX' = "newfdat"
  /\ UNCHANGED frame

ExNewEncoder_fdAT ==
  /\ pcX = "newfdat"
  /\ NewEncoder_fdAT
  /\ pcX' = "fdat"
  /\ UNCHANGED frame

ExFinish ==
  /\ pcX = "frames" /\ frame = Frames
  /\ pcX' = "finished"
  /\ UNCHANGED <<c, pvars, chvars, cvars, svars, frame>>

ExRecv == Recv /\ UNCHANGED xvars

Example ==
  /\ \/ ExNewEncoder_IDAT \/ ExNext \/ ExRecv \/ ExChunk
     \/ ExErr \/ ExfcTL \/ ExNewEncoder_fdAT \/ ExFinish
  /\ UNCHANGED <<fvars, wvars>>

ExProducer == Producer /\ UNCHANGED <<xvars, fvars, wvars>>

NextExample ==
  \/ Ctor /\ UNCHANGED <<xvars, fvars, wvars>>
  \/ writeImage_row /\ UNCHANGED <<xvars, fvars, wvars>>
  \/ zlib_Write /\ UNCHANGED <<xvars, fvars, wvars>>
  \/ bufio_Write /\ UNCHANGED <<xvars, fvars, wvars>>
  \/ atomWriter_Write /\ UNCHANGED <<xvars, fvars, wvars>>
  \/ Close /\ UNCHANGED <<xvars, fvars, wvars>>
  \/ ExNewEncoder_IDAT /\ UNCHANGED <<fvars, wvars>>
  \/ ExNext /\ UNCHANGED <<fvars, wvars>>
  \/ ExRecv /\ UNCHANGED <<fvars, wvars>>
  \/ ExChunk /\ UNCHANGED <<fvars, wvars>>
  \/ ExErr /\ UNCHANGED <<fvars, wvars>>
  \/ ExfcTL /\ UNCHANGED <<fvars, wvars>>
  \/ ExNewEncoder_fdAT /\ UNCHANGED <<fvars, wvars>>
  \/ ExFinish /\ UNCHANGED <<fvars, wvars>>

\* the example's header: true-color with alpha, bit depth 8
InitExample == Init /\ c = <<ColorType_TrueColorAlpha, 8>>

SpecExample ==
  InitExample /\ [][NextExample]_vars
       /\ WF_vars(ExProducer) /\ WF_vars(Example)

(***************************************************************************)
(* The row filter: filter() and the loop of writeImage around it.          *)
(***************************************************************************)
ftNone == 0
ftSub == 1
ftUp == 2
ftAverage == 3
ftPaeth == 4
nFilter == 5

\* writeImage's bytes per pixel
bytesPerPixel(code) ==
  CASE code = cbG8 -> 1
    [] code = cbTC8 -> 3
    [] code = cbP8 -> 1
    [] code = cbTCA8 -> 4
    [] code = cbTC16 -> 6
    [] code = cbTCA16 -> 8
    [] code = cbG16 -> 2
    [] OTHER -> 0

\* the absolute value of a byte read as a signed int8
abs8_unsigned(d) == d

abs8(d) == IF d < 128 THEN d ELSE 256 - d

\* a - b on uint8
sub8(a, b) == (a - b + 256) % 256

abs(x) == IF x < 0 THEN -x ELSE x

\* the Paeth predictor of the bytes to the left, above and to the upper
\* left: the one nearest to left + above - upperLeft, ties going to left,
\* then above, then upperLeft
paeth(left, above, upperLeft) ==
  LET pa == abs(above - upperLeft)
      pb == abs(left - upperLeft)
      pc == abs(left + above - 2 * upperLeft)
  IN IF pa <= pb /\ pa <= pc THEN left
     ELSE IF pb <= pc THEN above ELSE upperLeft

\* if sum >= best { break }
Exceeds(sum, best) == sum >= best

\* if sum < best { best = sum; filter = ... }
Wins_le(sum, best) == sum <= best

Wins(sum, best) == sum < best

\* the loop without a break over out[from..to]: sum += abs8(out[i])
RECURSIVE sumLoop(_, _, _)
sumLoop(out, from, to) ==
  IF from > to THEN 0 ELSE abs8(out[from]) + sumLoop(out, from + 1, to)

\* the loop with the break, from index i with the sum so far: out[i] is
\* stored, added, and the loop left once the sum reaches best.  The result
\* is the sum and the last index stored
RECURSIVE breakLoop(_, _, _, _, _)
breakLoop(out, i, n, sum, best) ==
  IF i > n
    THEN [sum |-> sum, last |-> n]
    ELSE LET s == sum + abs8(out[i])
         IN IF Exceeds(s, best)
              THEN [sum |-> s, last |-> i]
              ELSE breakLoop(out, i + 1, n, s, best)

\* a buffer whose first `last` data bytes have been overwritten with out
Stored(buf, out, last) ==
  <<Head(buf)>> \o [i \in 1..Len(out) |->
                     IF i <= last THEN out[i] ELSE buf[i + 1]]

\* what the four loops store at index i when they reach it
upAt(cdat0, pdat, i) == sub8(cdat0[i], pdat[i])

paethAt(cdat0, pdat, bpp, i) ==
  IF i <= bpp
    THEN sub8(cdat0[i], pdat[i])
    ELSE sub8(cdat0[i], paeth(cdat0[i - bpp], pdat[i], pdat[i - bpp]))

subAt(cdat0, bpp, i) ==
  IF i <= bpp THEN cdat0[i] ELSE sub8(cdat0[i], cdat0[i - bpp])

averageAt(cdat0, pdat, bpp, i) ==
  IF i <= bpp
    THEN sub8(cdat0[i], pdat[i] \div 2)
    ELSE sub8(cdat0[i], ((cdat0[i - bpp] + pdat[i]) \div 2) % 256)

\* filter(cr, pr, bpp): the filter chosen and the buffers as it leaves them
filter(crs, prs, bpp) ==
  LET cdat0 == Tail(crs[0])
      pdat == Tail(prs)
      n == Len(cdat0)
      \* the up filter
      up == [i \in 1..n |-> upAt(cdat0, pdat, i)]
      sumUp == sumLoop(up, 1, n)
      \* the Paeth filter
      pa == [i \in 1..n |-> paethAt(cdat0, pdat, bpp, i)]
      rPa == breakLoop(pa, bpp + 1, n, sumLoop(pa, 1, bpp), sumUp)
      winPa == Wins(rPa.sum, sumUp)
      best2 == IF winPa THEN rPa.sum ELSE sumUp
      f2 == IF winPa THEN ftPaeth ELSE ftUp
      \* the none filter
      rNo == breakLoop(cdat0, 1, n, 0, best2)
      winNo == Wins(rNo.sum, best2)
      best3 == IF winNo THEN rNo.sum ELSE best2
      f3 == IF winNo THEN ftNone ELSE f2
      \* the sub filter
      su == [i \in 1..n |-> subAt(cdat0, bpp, i)]
      rSu == breakLoop(su, bpp + 1, n, sumLoop(su, 1, bpp), best3)
      winSu == Wins(rSu.sum, best3)
      best4 == IF winSu THEN rSu.sum ELSE best3
      f4 == IF winSu THEN ftSub ELSE f3
      \* the average filter
      av == [i \in 1..n |-> averageAt(cdat0, pdat, bpp, i)]
      rAv == breakLoop(av, bpp + 1, n, sumLoop(av, 1, bpp), best4)
      winAv == Wins(rAv.sum, best4)
      f5 == IF winAv THEN ftAverage ELSE f4
  IN [filter |-> f5,
      cr |-> [k \in 0..nFilter - 1 |->
                CASE k = ftSub -> Stored(crs[k], su, rSu.last)
                  [] k = ftUp -> Stored(crs[k], up, n)
                  [] k = ftAverage -> Stored(crs[k], av, rAv.last)
                  [] k = ftPaeth -> Stored(crs[k], pa, rPa.last)
                  [] OTHER -> crs[k]]]

\* the bytes a raw row is drawn from
ByteVals == {2, 130}

\* the headers of the filter's specification: bytes per pixel 1, 2 and,
\* for the invalid layout, 0
FilterHeaders ==
  { <<ColorType_Grayscale, 8>>, <<ColorType_Grayscale, 16>>,
    <<ColorType_TrueColor, 4>> }

bpp == bytesPerPixel(cb(c))

\* writeImage before its loop: the buffers cr[i] with cr[i][0] = i, and pr
InitFilter ==
  /\ c \in FilterHeaders
  /\ rows \in 0..MaxRows
  /\ fw \in 1..MaxRowLen
  /\ bpp * fw <= MaxRowLen
  /\ applyFilter \in BOOLEAN
  /\ cr = [k \in 0..nFilter - 1 |-> <<k>> \o Zeros(bpp * fw)]
  /\ pr = Zeros(1 + bpp * fw)
  /\ fsel = 0 /\ fout = <<>>
  /\ PipelineInit /\ ChunkIdle

\* one turn of writeImage's loop: the row's bytes go to cr[0][1:], the
\* filter is chosen and applied, cr[f] is written to the coder, and pr and
\* cr[0] change places
writeImage ==
  /\ y < rows
  /\ \E raw \in [1..bpp * fw -> ByteVals] :
       LET cr1 == [cr EXCEPT ![0] = <<Head(cr[0])>> \o raw]
           r == IF applyFilter
                  THEN filter(cr1, pr, bpp)
                  ELSE [filter |-> ftNone, cr |-> cr1]
       IN /\ fsel' = r.filter
          /\ fout' = r.cr[r.filter]
          /\ pr' = r.cr[0]
          /\ cr' = [r.cr EXCEPT ![0] = pr]
  /\ y' = y + 1
  /\ UNCHANGED <<c, rows, zq, p, bbuf, bn, zout, offer, after, pcP, chvars,
                 cvars, svars, xvars, fw, applyFilter, wvars>>

NextFilter == writeImage

SpecFilter == InitFilter /\ [][NextFilter]_vars

(***************************************************************************)
(* writeChunkTo.  A uint32 is kept as the sequence of its 32 bits, the     *)
(* least significant first, so that the checksum has its full width.       *)
(***************************************************************************)
RECURSIVE bitOf(_, _)
bitOf(n, k) == IF k = 0 THEN n % 2 ELSE bitOf(n \div 2, k - 1)

\* uint32(len(b))
uint32(n) == [k \in 1..32 |-> bitOf(n, k - 1)]

\* uint8(u >> shift)
uint8(u, shift) ==
  u[shift + 1] + 2 * u[shift + 2] + 4 * u[shift + 3] + 8 * u[shift + 4]
    + 16 * u[shift + 5] + 32 * u[shift + 6] + 64 * u[shift + 7]
    + 128 * u[shift + 8]

\* the four bytes in the opposite order
writeUint32_le(u) == <<uint8(u, 0), uint8(u, 8), uint8(u, 16), uint8(u, 24)>>

\* writeUint32: big-endian
writeUint32(u) == <<uint8(u, 24), uint8(u, 16), uint8(u, 8), uint8(u, 0)>>

xor(a, b) == (a + b) % 2

\* the IEEE polynomial, reflected: 0xedb88320
IEEE ==
  <<0, 0, 0, 0, 0, 1, 0, 0,  1, 1, 0, 0, 0, 0, 0, 1,
    0, 0, 0, 1, 1, 1, 0, 1,  1, 0, 1, 1, 0, 1, 1, 1>>

\* one bit of the checksum's shift register
crcShift(r) ==
  LET s == Tail(r) \o <<0>>
  IN IF Head(r) = 1 THEN SubSeq([k \in 1..32 |-> xor(s[k], IEEE[k])], 1, 32)
     ELSE s

RECURSIVE crcShifts(_, _)
crcShifts(r, times) ==
  IF times = 0 \/ Len(r) = 0 THEN r ELSE crcShifts(crcShift(r), times - 1)

\* one byte into the register: its bits onto the low eight, then eight
\* shifts
crcByte(r, byte) ==
  crcShifts([k \in 1..8 |-> xor(r[k], bitOf(byte, k - 1))] \o SubSeq(r, 9, 32),
            8)

RECURSIVE crcUpdate(_, _)
crcUpdate(r, bytes) ==
  IF bytes = <<>> \/ Len(r) = 0
    THEN r
    ELSE crcUpdate(crcByte(r, Head(bytes)), Tail(bytes))

\* crc32.NewIEEE(), Write and Sum32: the register starts as all ones and
\* is complemented at the end
Sum32(bytes) ==
  LET r == crcUpdate([k \in 1..32 |-> 1], bytes)
  IN [k \in 1..32 |-> 1 - r[k]]

\* the chunk names and payload bytes drawn on: IDAT, fdAT, IEND
ChunkNames == { <<73, 68, 65, 84>>, <<102, 100, 65, 84>>, <<73, 69, 78, 68>> }

PayloadBytes == {0, 255}

\* the errors w.Write can return
WriteErrors == {"short write", "closed pipe"}

\* what w.Write(p) can answer for p of plen bytes: all of it and no error,
\* or an error after some of it
WriteOutcomes(plen) ==
  {[n |-> plen, err |-> "nil"]}
    \cup {[n |-> k, err |-> e] : k \in 0..plen, e \in WriteErrors}

\* a call of w.Write as w saw it
WriteCall(bytes, o) == [p |-> bytes, n |-> o.n, err |-> o.err]

\* the code goes on to the next write whatever the last one answered
Failed_never(err) == FALSE

\* if err != nil { return ... }
Failed(err) == err # "nil"

InitChunk ==
  /\ wname \in ChunkNames
  /\ wb \in UNION {[1..k -> PayloadBytes] : k \in 0..MaxPayload}
  /\ wpc = "call"
  /\ wlog = <<>>
  /\ wret = [n |-> 0, err |-> "nil"]
  /\ c \in Headers /\ rows = 0
  /\ PipelineInit /\ FilterIdle

\* writeChunkTo(name, b, w), w answering each write as it chooses
writeChunkTo ==
  /\ wpc = "call"
  /\ LET header == writeUint32(uint32(Len(wb))) \o wname
         footer == writeUint32(Sum32(wname \o wb))
     IN \E o1 \in WriteOutcomes(Len(header)) :
          IF Failed(o1.err)
            THEN /\ wlog' = <<WriteCall(header, o1)>>
                 /\ wret' = [n |-> o1.n, err |-> o1.err]
            ELSE \E o2 \in WriteOutcomes(Len(wb)) :
              IF Failed(o2.err)
                THEN /\ wlog' = <<WriteCall(header, o1), WriteCall(wb, o2)>>
                     /\ wret' = [n |-> o1.n + o2.n, err |-> o2.err]
                ELSE \E o3 \in WriteOutcomes(Len(footer)) :
                  /\ wlog' = <<WriteCall(header, o1), WriteCall(wb, o2),
                               WriteCall(footer, o3)>>
                  /\ wret' = [n |-> o1.n + o2.n + o3.n, err |-> o3.err]
  /\ wpc' = "returned"
  /\ UNCHANGED <<c, pvars, chvars, cvars, svars, xvars, fvars, wname, wb>>

NextChunk == writeChunkTo

SpecChunk == InitChunk /\ [][NextChunk]_vars

(***************************************************************************)
(* Claims about the streaming pipeline.                                    *)
(***************************************************************************)
NoErrAtom(l) == \A i \in 1..Len(l) : ~l[i].err

\* C1: for a supported header and an image with rows, when the goroutine
\* has fed every row to the coder without a failure
\* and has terminated, every byte the coder produced, the last partly
\* filled buffer included, has been handed to the consumer as a unit.
C1_AllBytesHanded ==
  (cb(c) # cbInvalid /\ rows > 0 /\ pcP = "done" /\ y = rows
     /\ NoErrAtom(handed))
    => (bn = 0 /\ Flatten(handed) = [i \in 1..zout |-> i])

\* C2: for a header whose (color type, bit depth) pair cb() calls invalid,
\* no goroutine is started and no unit is handed to the consumer.
C2_InvalidRejected ==
  cb(c) = cbInvalid => (pcP = "none" /\ handed = <<>> /\ received = <<>>)

\* C3: after a Next() that returned true, Err() is nil and e.a is a data
\* unit the producer handed off; the Next() that receives an error atom
\* does not return true.
C3_TrueMeansUnit ==
  (ret.op = "Next" /\ ret.ok = "true")
    => (ea # NilAtom /\ ~Err(ea) /\ handed # <<>>
          /\ \E i \in 1..Len(handed) : handed[i] = ea)

\* C4: once Err() is non-nil it stays non-nil, e.a stays the error atom,
\* and a Next() called then returns false without entering the receive.
C4_ErrSticky ==
  [][Err(ea) => /\ Err(ea') /\ ea' = ea
                /\ cpc' = "idle" /\ received' = received
                /\ (NextCall => ret'.ok = "false")]_vars

\* a Next() has returned false on the error, the producer having ended
\* without closing the channel
C4_Witness ==
  /\ Err(ea) /\ ret.op = "Next" /\ ret.ok = "false"
  /\ pcP = "done" /\ ~chClosed

\* C5: in the example session the sequence numbers drawn are 0, 1, 2, ...
\* in emission order, a frame's fcTL number is below the numbers of its
\* fdAT chunks, and a finished session of Frames frames has drawn exactly
\* Frames plus the number of frame-data units numbers.
C5_Contiguous ==
  /\ \A i \in 1..Len(log) : log[i].seq = i - 1
  /\ \A i, j \in 1..Len(log) :
       (log[i].kind = "fcTL" /\ log[j].kind = "fdAT"
          /\ log[i].frame = log[j].frame) => log[i].seq < log[j].seq
  /\ \A j \in 1..Len(log) :
       log[j].kind = "fdAT" =>
         \E i \in 1..Len(log) :
           log[i].kind = "fcTL" /\ log[i].frame = log[j].frame
  /\ pcX = "finished" =>
       /\ Len(log) = Frames + fdUnits
       /\ seq = Frames + fdUnits
       /\ NFrames(log) = Frames

\* the session is finished and some frame had two data units
C5_Witness ==
  /\ pcX = "finished"
  /\ \E i \in 1..Len(log) - 1 :
       log[i].kind = "fdAT" /\ log[i + 1].kind = "fdAT"

\* C6: the producer completes the hand-off of unit k+1 only after Next()
\* has received unit k, and what the consumer has received is, in order
\* and without a gap or a repeat, what the producer has handed off.
C6_OneInFlight ==
  /\ Len(handed) <= Len(received) + 1
  /\ Len(received) <= Len(handed)
  /\ \A i \in 1..Len(received) : received[i] = handed[i] /\ received[i].id = i
  /\ (ret.op = "Next" /\ ret.ok = "false" /\ ~Err(ea)) => received = handed

\* three units have been received
C6_Witness ==
  /\ Len(received) >= 3 /\ NoErrAtom(received)
  /\ received[1].buf # received[2].buf

\* C7: with a consumer that calls Next() until it returns false, every
\* encoder's goroutine has terminated when the consumer moves on from it,
\* and the session ends with no goroutine left and no Next() blocked.
C7_Terminates ==
  /\ [](pcX \in {"frames", "newfdat", "finished"} => pcP = "done")
  /\ <>[](pcX \in {"finished", "panicked"} /\ pcP = "done" /\ cpc = "idle")

\* the session has ended and every goroutine with it, units and an error
\* both having occurred
C7_Witness ==
  /\ pcX = "panicked" /\ pcP = "done" /\ chClosed
  /\ fdUnits > 0 /\ cpc = "idle"

\* the consumer holds a data unit: a Next() has returned true on it and no
\* later Next() has been called
Holding == cpc = "idle" /\ ea # NilAtom /\ ~ea.err

\* C11: while the consumer holds a unit, the bytes behind the slice Chunk()
\* returns are the bytes the producer handed off; the goroutine, resumed by
\* the receive, does not write into them.
C11_SpanStable == Holding => Span(ea) = ea.buf

\* the consumer holds a unit whose bytes the goroutine has since replaced,
\* and a Chunk() has returned them
C11_Overwritten ==
  /\ Holding /\ Span(ea) # ea.buf
  /\ ret.op = "Chunk" /\ ret.chunk.atom = ea.id /\ ret.chunk.data # ea.buf

\* C12: the counter moves only by one, and only in a consumer's call of
\* Encoder_fdAT.Chunk() or of seq.Next() itself; every Encoder_fdAT.Chunk()
\* moves it by one and the chunk it returns carries the value the counter
\* had at the call; the goroutine's steps, Next(), Err(), the constructors
\* and Encoder_IDAT.Chunk() leave it as it is.
C12_CounterFrame ==
  [][/\ seq' \in {seq, seq + 1}
     /\ seq' # seq =>
          /\ cpc = "idle" /\ cpc' = "idle"
          /\ pvars' = pvars /\ chvars' = chvars
          /\ ret'.op \in {"Chunk", "fcTL"}
          /\ log' = Append(log, log'[Len(log')])
          /\ log'[Len(log')].seq = seq
          /\ ret'.op = "Chunk" =>
               /\ ekind = "fdAT"
               /\ ret'.ok = "ok" =>
                    ret'.chunk.tag = "fdAT" /\ ret'.chunk.seq = seq
     /\ (Chunk /\ ekind = "fdAT") => seq' = seq + 1
     /\ (Chunk /\ ekind = "IDAT") => seq' = seq
     /\ (Producer \/ NextCall \/ Recv \/ ErrCall \/ NewEncoder_IDAT
           \/ NewEncoder_fdAT) => seq' = seq]_vars

\* an Encoder_fdAT.Chunk() has returned the second number drawn, the first
\* having gone to the caller's fcTL, after the goroutine's hand-off
C12_Witness ==
  /\ ekind = "fdAT" /\ ret.op = "Chunk" /\ ret.ok = "ok"
  /\ ret.chunk.seq = 1 /\ seq = 2
  /\ Len(log) = 2 /\ log[1].kind = "fcTL" /\ log[2].kind = "fdAT"
  /\ handed # <<>>

(***************************************************************************)
(* Claims about the row filter.  The rules are restated here from the PNG  *)
(* definition, bytes to the left of the row's first pixel being 0, and     *)
(* compared with what filter() chose and stored.                           *)
(***************************************************************************)
\* the order in which filter() tries the rules
EvalOrder == <<ftUp, ftPaeth, ftNone, ftSub, ftAverage>>

LeftOf(row, bp, i) == IF i <= bp THEN 0 ELSE row[i - bp]

\* what a rule predicts for byte i from the bytes before it
Predictor(rule, left, above, upperLeft) ==
  CASE rule = ftSub -> left
    [] rule = ftUp -> above
    [] rule = ftAverage -> (left + above) \div 2
    [] rule = ftPaeth -> paeth(left, above, upperLeft)
    [] OTHER -> 0

\* a rule applied to the whole of a row
FullOut(rule, raw, prev, bp) ==
  [i \in 1..Len(raw) |->
     (raw[i] + 256
        - Predictor(rule, LeftOf(raw, bp, i), prev[i], LeftOf(prev, bp, i)))
       % 256]

\* the magnitude of a byte read as a two's complement number
Magnitude(d) == IF d >= 128 THEN 256 - d ELSE d

RECURSIVE SumMagnitude(_)
SumMagnitude(row) ==
  IF row = <<>> THEN 0 ELSE Magnitude(Head(row)) + SumMagnitude(Tail(row))

FullSum(rule, raw, prev, bp) == SumMagnitude(FullOut(rule, raw, prev, bp))

OrderOf(rule) == CHOOSE k \in 1..nFilter : EvalOrder[k] = rule

\* a rule reversed, left to right: acc is the part of the row rebuilt so far
RECURSIVE Unfilter(_, _, _, _, _)
Unfilter(rule, dat, prev, bp, acc) ==
  IF Len(acc) >= Len(dat)
    THEN acc
    ELSE LET i == Len(acc) + 1
             pred == Predictor(rule, LeftOf(acc, bp, i), prev[i],
                               LeftOf(prev, bp, i))
         IN Unfilter(rule, dat, prev, bp, Append(acc, (dat[i] + pred) % 256))

\* after a turn of writeImage's loop the raw row is pr[1:] and the row
\* before it cr[0][1:]
RawRow == Tail(pr)

PrevRow == Tail(cr[0])

Filtered == y > 0 /\ applyFilter

\* some rule other than the chosen one was left by its early exit
SomePartial ==
  \E k \in 1..nFilter - 1 :
    k # fsel /\ Tail(cr[k]) # FullOut(k, RawRow, PrevRow, bpp)

\* C9: filter() returns a rule whose full sum of magnitudes, computed
\* without the early exit, is minimal among the five rules, and among the
\* rules with that minimal sum the earliest in the order Up, Paeth, None,
\* Sub, Average.
C9_MinimalFirst ==
  (Filtered /\ bpp > 0) =>
    \A r \in 0..nFilter - 1 :
      /\ FullSum(fsel, RawRow, PrevRow, bpp) <= FullSum(r, RawRow, PrevRow, bpp)
      /\ FullSum(r, RawRow, PrevRow, bpp) = FullSum(fsel, RawRow, PrevRow, bpp)
           => OrderOf(fsel) <= OrderOf(r)

\* a rule other than Up was chosen, another rule has the same full sum, and
\* a third was cut short by the early exit
C9_Witness ==
  /\ Filtered /\ bpp > 0 /\ fsel # ftUp
  /\ \E r \in 0..nFilter - 1 :
       /\ r # fsel
       /\ FullSum(r, RawRow, PrevRow, bpp) = FullSum(fsel, RawRow, PrevRow, bpp)
  /\ SomePartial

\* C10: the buffer written to the coder is the chosen rule's number followed
\* by that rule applied to the whole row, and reversing the rule on it with
\* the previous row gives back the raw row.
C10_RoundTrip ==
  Filtered =>
    /\ fout = <<fsel>> \o FullOut(fsel, RawRow, PrevRow, bpp)
    /\ Unfilter(fsel, Tail(fout), PrevRow, bpp, <<>>) = RawRow

\* the Average rule was chosen on a row after the first, with two bytes per
\* pixel, while another rule's buffer was left partly stale
C10_Witness ==
  /\ Filtered /\ y >= 2 /\ bpp = 2 /\ fsel = ftAverage
  /\ Tail(fout) # RawRow
  /\ SomePartial

(***************************************************************************)
(* Claims about the chunk writer.                                          *)
(***************************************************************************)
RECURSIVE SumN(_)
SumN(l) == IF l = <<>> THEN 0 ELSE Head(l).n + SumN(Tail(l))

\* C8: writeChunkTo writes the header (the payload length as four
\* big-endian bytes, then the name), the payload and the four checksum
\* bytes, in that order; it stops at the first write that fails and goes on
\* after every write that succeeds; it returns the sum of the counts the
\* writes reported with the last write's error, which for three successes
\* is 12 + the payload length and nil.
C8_ThreeWrites ==
  wpc = "returned" =>
    LET k == Len(wlog)
    IN /\ k \in 1..3
       /\ wlog[1].p = <<0, 0, 0, Len(wb)>> \o wname
       /\ k >= 2 => wlog[2].p = wb
       /\ k = 3 => Len(wlog[3].p) = 4
       /\ \A i \in 1..k - 1 : wlog[i].err = "nil"
       /\ k < 3 => wlog[k].err # "nil"
       /\ wret.n = SumN(wlog)
       /\ wret.err = wlog[k].err
       /\ wret.err = "nil" => (k = 3 /\ wret.n = 12 + Len(wb))

\* the payload write failed partway through a payload of two bytes or more
C8_Witness ==
  /\ wpc = "returned" /\ Len(wlog) = 2
  /\ wlog[2].err = "short write"
  /\ wlog[2].n > 0 /\ wlog[2].n < Len(wb)
  /\ wret.n = 8 + wlog[2].n

====
